---- MODULE Spec2Model ----
(***************************************************************************)
(* A model of src/pyimgaug/augmenters2.py: the heap of Augmenter objects,  *)
(* the numpy RandomState objects they refer to, and the public operations  *)
(* (constructors, transform, to_deterministic, append, extend).            *)
(*                                                                         *)
(* Encodings.  A probability is counted in halves (0, 1, 2 stand for 0.0,  *)
(* 0.5, 1.0; 3 for 1.5).  A multiplier, a loc and a scale are whole floats.*)
(* An image is a sequence of rows, a row a sequence of columns, a column a *)
(* sequence of channel values.  An augmenter is identified by its index in *)
(* augs; a RandomState object is identified by the index of the augmenter  *)
(* whose construction created it, and random_state = 0 stands for the      *)
(* tuple that np.random.get_state() returns (line 23), which is a value    *)
(* and not a RandomState.                                                  *)
(***************************************************************************)
EXTENDS Integers, Sequences, FiniteSets, TLC

VARIABLES augs, rsState, last

vars == <<augs, rsState, last>>

\* ---------------------------------------------------------------- bounds
\* MaxAug: the augmenters on the heap.  MaxNew: a constructor is called
\* while the heap holds fewer augmenters than this.  MaxSolo: among leaves
\* only, to_deterministic is called while the heap holds at most this many.
\* MaxN: the n of to_deterministic(n).  MaxChildren: the children of a
\* Sequence.  RsStates: the states of a random stream.
MaxAug == 5
MaxNew == 2
MaxSolo == 1
MaxN == 2
MaxChildren == 2
RsStates == 3

\* ------------------------------------------------- numpy's RandomState
NoState == -1

RsStateSet == 0 .. (RsStates - 1)

\* the state of a RandomState after one draw
Advance(s) == (s + 1) % RsStates

\* the state after n draws
RECURSIVE AdvanceBy(_, _)
AdvanceBy(s, n) == IF n = 0 THEN s ELSE AdvanceBy(Advance(s), n - 1)

\* the integer a draw returns in state s
Raw(s) == (s * s + 1) % RsStates

\* np.random.RandomState(seed): the state an integer seed gives
Seeded(seed) == seed % RsStates

\* random_state.get_state()
get_state(rs, sid) == rs[sid]

set_state_dropped(rs, sid, st) == rs

\* random_state.set_state(state_orig)
set_state(rs, sid, st) == [rs EXCEPT ![sid] = st]

\* ------------------------------------------- parameters (module missing)
NoParam == [dist |-> "None", a |-> 0, b |-> 0]
Deterministic(v) == [dist |-> "Deterministic", a |-> v, b |-> v]
Binomial(p) == [dist |-> "Binomial", a |-> p, b |-> p]
Uniform(lo, hi) == [dist |-> "Uniform", a |-> lo, b |-> hi]

\* does drawing from the parameter read the random stream?
UsesStream(param) == param.dist \in {"Binomial", "Uniform"}

\* one sample of the parameter, drawn in state s
Sample(param, s) ==
    CASE param.dist = "Deterministic" -> param.a
      [] param.dist = "Binomial" ->
            IF param.a >= 2 THEN 1 ELSE IF param.a <= 0 THEN 0 ELSE Raw(s) % 2
      [] param.dist = "Uniform" ->
            IF param.b > param.a THEN param.a + (Raw(s) % (param.b - param.a))
            ELSE param.a
      [] OTHER -> 0

\* param.draw_samples((n,), random_state): the n samples drawn from state s
draw_samples(param, n, s) ==
    [i \in 1 .. n |->
        Sample(param, IF UsesStream(param) THEN AdvanceBy(s, i - 1) ELSE s)]

\* the state of the stream after draw_samples
draw_state(param, n, s) == IF UsesStream(param) THEN AdvanceBy(s, n) ELSE s

\* ---------------------------------------------------------------- batches
NoBatch == [form |-> "none", ndim |-> 0, dtype |-> "", imgs |-> <<>>]

\* two images of two rows, two columns and two channels
ImgA == << << <<200, 10>>, <<0, 100>> >>, << <<30, 40>>, <<50, 60>> >> >>
ImgB == << << <<10, 200>>, <<100, 0>> >>, << <<70, 80>>, <<90, 5>> >> >>

\* the values handed to transform: a 4-D uint8 array of two images, the
\* list of the same two 3-D images, a 3-D array and a float array
Inputs ==
    << [form |-> "ndarray", ndim |-> 4, dtype |-> "uint8", imgs |-> <<ImgA, ImgB>>],
       [form |-> "list", ndim |-> 3, dtype |-> "uint8", imgs |-> <<ImgA, ImgB>>],
       [form |-> "ndarray", ndim |-> 3, dtype |-> "uint8", imgs |-> <<ImgA>>],
       [form |-> "ndarray", ndim |-> 4, dtype |-> "float64", imgs |-> <<ImgA, ImgB>>] >>

InputIds == 1 .. Len(Inputs)

\* np.array(images) of a list or tuple of arrays: one more dimension
np_array(x) == [form |-> "ndarray", ndim |-> x.ndim + 1, dtype |-> x.dtype, imgs |-> x.imgs]

is_np_array(x) == x.form = "ndarray"

\* the batch the validation of lines 36 and 38 looks at
Stacked(x) == IF x.form = "list" THEN np_array(x) ELSE x

\* a batch that passes lines 33 to 38
ValidBatch(x) ==
    /\ x.form \in {"list", "ndarray"}
    /\ Stacked(x).ndim = 4
    /\ Stacked(x).dtype = "uint8"

Reverse(seq) == [i \in 1 .. Len(seq) |-> seq[Len(seq) + 1 - i]]

\* np.fliplr of one image: the columns of every row reversed
np_fliplr(img) == [h \in 1 .. Len(img) |-> Reverse(img[h])]

\* np.flipud of one image: the rows reversed
np_flipud(img) == Reverse(img)

Channels(imgs) == Len(imgs[1][1][1])

Max(a, b) == IF a >= b THEN a ELSE b
Min(a, b) == IF a <= b THEN a ELSE b

\* np.clip(v, 0, 255)
np_clip(v) == Min(Max(v, 0), 255)

\* can an array of shape (N, H, W, C) be broadcast against one of shape (N,)?
Broadcastable(imgs) ==
    \/ Len(imgs) = 1
    \/ Channels(imgs) = 1
    \/ Channels(imgs) = Len(imgs)

\* result * samples of line 408: numpy aligns the trailing axes, so the
\* (N,) samples run along the channel axis
Broadcast(imgs, samples) ==
    LET n == Len(imgs)
        c == Channels(imgs)
    IN [i \in 1 .. n |->
         [h \in 1 .. Len(imgs[i]) |->
           [w \in 1 .. Len(imgs[i][h]) |->
             [k \in 1 .. Max(c, n) |->
                imgs[i][h][w][IF c = 1 THEN 1 ELSE k]
                  * samples[IF n = 1 THEN 1 ELSE k]]]]]

\* np.clip(result, 0, 255, out=result) of a whole batch
np_clip_batch(imgs) ==
    [i \in 1 .. Len(imgs) |->
      [h \in 1 .. Len(imgs[i]) |->
        [w \in 1 .. Len(imgs[i][h]) |->
          [k \in 1 .. Len(imgs[i][h][w]) |-> np_clip(imgs[i][h][w][k])]]]]

\* ------------------------------------------------------------- outcomes
None == 0

\* a call that raised err at source line at; rs is the state of the streams
\* the call leaves behind
Raise(err, at, rs, samples, ran) ==
    [ok |-> FALSE, err |-> err, at |-> at, val |-> NoBatch,
     samples |-> samples, ran |-> ran, rs |-> rs]

Return(val, rs, samples) ==
    [ok |-> TRUE, err |-> "", at |-> 0, val |-> val,
     samples |-> samples, ran |-> TRUE, rs |-> rs]

\* ------------------------------------------------------------ _transform
\* In each operator self is the augmenter's record, images a batch that
\* passed the validation and rs the state of every RandomState object.
\* self.random_state = 0 is the tuple of line 23, which has none of the
\* methods of a RandomState.

\* Sequence._transform: the call of line 81 passes one argument to a method
\* that takes two
Sequence_transform(self, images, rs) ==
    IF self.children = <<>>
    THEN Return(images, rs, <<>>)
    ELSE Raise("TypeError", 81, rs, <<>>, TRUE)

\* Sometimes._transform
Sometimes_transform(self, images, rs) ==
    LET sid == self.random_state
        n == Len(images.imgs)
    IN IF UsesStream(self.p) /\ sid = 0
       THEN Raise("AttributeError", 147, rs, <<>>, TRUE)
       ELSE LET s == IF sid = 0 THEN 0 ELSE rs[sid]
                samples == draw_samples(self.p, n, s)
                rs1 == IF sid = 0 THEN rs
                       ELSE [rs EXCEPT ![sid] = draw_state(self.p, n, s)]
            IN IF n = 0 THEN Return(images, rs1, samples)
               ELSE IF samples[1] = 1
                    THEN Raise("AttributeError", 152, rs1, samples, TRUE)
                    ELSE IF self.else_list = None
                         THEN Raise("AttributeError", 154, rs1, samples, TRUE)
                         ELSE Raise("TypeError", 154, rs1, samples, TRUE)

\* Fliplr._transform
Fliplr_transform(self, images, rs) ==
    LET sid == self.random_state
        n == Len(images.imgs)
    IN IF UsesStream(self.p) /\ sid = 0
       THEN Raise("AttributeError", 249, rs, <<>>, TRUE)
       ELSE LET s == IF sid = 0 THEN 0 ELSE rs[sid]
                samples == draw_samples(self.p, n, s)
                rs1 == IF sid = 0 THEN rs
                       ELSE [rs EXCEPT ![sid] = draw_state(self.p, n, s)]
                result == [i \in 1 .. n |->
                             IF samples[i] = 1 THEN np_fliplr(images.imgs[i])
                             ELSE images.imgs[i]]
            IN Return([images EXCEPT !.imgs = result], rs1, samples)

\* Flipud._transform
Flipud_transform(self, images, rs) ==
    LET sid == self.random_state
        n == Len(images.imgs)
    IN IF UsesStream(self.p) /\ sid = 0
       THEN Raise("AttributeError", 272, rs, <<>>, TRUE)
       ELSE LET s == IF sid = 0 THEN 0 ELSE rs[sid]
                samples == draw_samples(self.p, n, s)
                rs1 == IF sid = 0 THEN rs
                       ELSE [rs EXCEPT ![sid] = draw_state(self.p, n, s)]
                result == [i \in 1 .. n |->
                             IF samples[i] = 1 THEN np_flipud(images.imgs[i])
                             ELSE images.imgs[i]]
            IN Return([images EXCEPT !.imgs = result], rs1, samples)

\* Multiply._transform: the product of a uint8 array and float samples is a
\* float64 array, and that array is what line 411 returns
Multiply_transform(self, images, rs) ==
    LET sid == self.random_state
        n == Len(images.imgs)
    IN IF UsesStream(self.mul) /\ sid = 0
       THEN Raise("AttributeError", 407, rs, <<>>, TRUE)
       ELSE LET s == IF sid = 0 THEN 0 ELSE rs[sid]
                samples == draw_samples(self.mul, n, s)
                rs1 == IF sid = 0 THEN rs
                       ELSE [rs EXCEPT ![sid] = draw_state(self.mul, n, s)]
            IN IF ~Broadcastable(images.imgs)
               THEN Raise("ValueError", 408, rs1, samples, TRUE)
               ELSE LET product == Broadcast(images.imgs, samples)
                        result == IF self.clip THEN np_clip_batch(product)
                                  ELSE product
                    IN Return([images EXCEPT !.imgs = result, !.dtype = "float64"],
                              rs1, samples)

\* copy_random_state, lines 8 and 9: the state the new RandomState starts
\* in, which is the state random_state is in; random_state is left as it is
copy_random_state(rs, sid) == get_state(rs, sid)

\* the states of the three RandomState objects that lines 339, 340 and 341
\* draw the seeds, the locs and the scales from
AdditiveGaussianNoise_forks(self, rs) ==
    [seeds |-> copy_random_state(rs, self.random_state),
     loc |-> copy_random_state(rs, self.random_state),
     scale |-> copy_random_state(rs, self.random_state)]

\* randint(0, 10**6, size=(n,)) of a RandomState in state s
randint(n, s) == [i \in 1 .. n |-> Raw(AdvanceBy(s, i - 1))]

\* AdditiveGaussianNoise._transform.  The constructor arguments drawn below
\* give loc = 0.0 and scale <= 0.0, for which line 347 is false for every
\* image that passes line 346, so lines 348 to 350 add nothing and the
\* seeds are not read.
AdditiveGaussianNoise_transform(self, images, rs) ==
    LET sid == self.random_state
        n == Len(images.imgs)
    IN IF sid = 0
       THEN Raise("AttributeError", 339, rs, <<>>, TRUE)
       ELSE LET s == rs[sid]
                forks == AdditiveGaussianNoise_forks(self, rs)
                samples_seeds == randint(n, forks.seeds)
                samples_loc == draw_samples(self.loc, n, forks.loc)
                samples_scale == draw_samples(self.scale, n, forks.scale)
            IN IF \E i \in 1 .. n : samples_scale[i] < 0
               THEN Raise("AssertionError", 346, rs, samples_scale, TRUE)
               ELSE Return(images, [rs EXCEPT ![sid] = Advance(s)], samples_scale)

\* Affine._transform, for an Affine built from a float scale and a float or
\* int translate: _draw_samples copies random_state (line 551, through line
\* 9) and then asks self.translate, which line 478 set to the None that
\* translate_handle_param returns, for draw_samples (line 560)
Affine_transform(self, images, rs) ==
    IF self.random_state = 0
    THEN Raise("AttributeError", 551, rs, <<>>, TRUE)
    ELSE Raise("AttributeError", 560, rs, <<>>, TRUE)

\* the dispatch of self._transform(images, random_state=self.random_state)
_transform(self, images, rs) ==
    CASE self.kind = "Sequence" -> Sequence_transform(self, images, rs)
      [] self.kind = "Sometimes" -> Sometimes_transform(self, images, rs)
      [] self.kind = "Fliplr" -> Fliplr_transform(self, images, rs)
      [] self.kind = "Flipud" -> Flipud_transform(self, images, rs)
      [] self.kind = "Multiply" -> Multiply_transform(self, images, rs)
      [] self.kind = "Affine" -> Affine_transform(self, images, rs)
      [] OTHER -> AdditiveGaussianNoise_transform(self, images, rs)

\* ------------------------------------------------------------- transform
\* lines 43 and 44, reached when nothing was raised before them
Restored(self, r, state_orig) ==
    IF r.ok /\ self.deterministic
    THEN [r EXCEPT !.rs = set_state(r.rs, self.random_state, state_orig)]
    ELSE r

\* Augmenter.transform of an argument that is no list or tuple
transform_array(self, images, rs) ==
    IF self.deterministic /\ self.random_state = 0
    THEN Raise("AttributeError", 31, rs, <<>>, FALSE)
    ELSE IF ~is_np_array(images)
         THEN Raise("Exception", 41, rs, <<>>, FALSE)
         ELSE IF images.ndim # 4
              THEN Raise("AssertionError", 36, rs, <<>>, FALSE)
              ELSE IF images.dtype # "uint8"
                   THEN Raise("AssertionError", 38, rs, <<>>, FALSE)
                   ELSE Restored(self, _transform(self, images, rs),
                                 IF self.deterministic
                                 THEN get_state(rs, self.random_state)
                                 ELSE NoState)

\* Augmenter.transform: a list or tuple is stacked and handed to transform
\* again (line 34), inside the snapshot and restore of the outer call
transform(self, x, rs) ==
    IF self.deterministic /\ self.random_state = 0
    THEN Raise("AttributeError", 31, rs, <<>>, FALSE)
    ELSE IF x.form = "list"
         THEN Restored(self, transform_array(self, np_array(x), rs),
                       IF self.deterministic
                       THEN get_state(rs, self.random_state)
                       ELSE NoState)
         ELSE transform_array(self, x, rs)

\* --------------------------------------------------------- the augmenters
\* origin is 0 for an augmenter a caller constructed, -1 for a Sequence
\* that Sometimes.__init__ wrapped around a list, and otherwise the
\* augmenter that _to_deterministic copied
Wrapped == -1

IsStream(ref) == ref # 0

\* what the record of a call holds
Record(op, a, x, n, r, ids, isList) ==
    [op |-> op, a |-> a, x |-> x, n |-> n, ok |-> r.ok, err |-> r.err,
     at |-> r.at, val |-> r.val, samples |-> r.samples, ran |-> r.ran,
     ids |-> ids, isList |-> isList]

Done == [ok |-> TRUE, err |-> "", at |-> 0, val |-> NoBatch,
         samples |-> <<>>, ran |-> FALSE]

Failed(err, at) == [Done EXCEPT !.ok = FALSE, !.err = err, !.at = at]

\* what the check of one constructor argument gives: the parameter it
\* becomes, or the error raised
Accept(param) == [ok |-> TRUE, err |-> "", at |-> 0, param |-> param]
Reject(err, at) == [ok |-> FALSE, err |-> err, at |-> at, param |-> NoParam]

\* the values of a constructor's arguments
Arg(ty, a, b, len) == [ty |-> ty, a |-> a, b |-> b, len |-> len]
PyNone == Arg("None", 0, 0, 0)
PyFloat(v) == Arg("float", v, v, 0)
PyInt(v) == Arg("int", v, v, 0)
PyTuple(lo, hi, len) == Arg("tuple", lo, hi, len)
PyRandomState(sid) == Arg("RandomState", sid, sid, 0)
PyStr == Arg("str", 0, 0, 0)

\* Augmenter.__init__, lines 22 to 27: what self.random_state refers to.  A
\* RandomState that is passed in is kept as it is, not copied.
Augmenter_random_state(random_state, id) ==
    CASE random_state.ty = "None" -> 0
      [] random_state.ty = "RandomState" -> random_state.a
      [] OTHER -> id

\* the state of the RandomState that line 27 creates for the new augmenter
Augmenter_new_state(random_state) ==
    IF random_state.ty = "int" THEN Seeded(random_state.a) ELSE NoState

Blank(kind, deterministic, ref) ==
    [kind |-> kind, deterministic |-> deterministic, random_state |-> ref,
     p |-> NoParam, mul |-> NoParam, loc |-> NoParam, scale |-> NoParam,
     clip |-> TRUE, children |-> <<>>, then_list |-> None, else_list |-> None,
     origin |-> 0]

\* Fliplr.__init__, lines 239 to 244
Fliplr_init(p) ==
    IF p.ty = "float" THEN Accept(Binomial(p.a))
    ELSE Reject("Exception", 244)

\* Flipud.__init__, lines 262 to 267
Flipud_init(p) ==
    IF p.ty = "float" THEN Accept(Binomial(p.a))
    ELSE Reject("Exception", 267)

\* Multiply.__init__, lines 392 to 401.  The message of the assertion of
\* line 396 formats a string with %d, so a failing assertion raises
\* TypeError while it builds the message.
Multiply_init(mul) ==
    CASE mul.ty = "float" ->
            IF mul.a >= 0 THEN Accept(Deterministic(mul.a))
            ELSE Reject("AssertionError", 393)
      [] mul.ty = "tuple" ->
            IF mul.len = 2 THEN Accept(Uniform(mul.a, mul.b))
            ELSE Reject("TypeError", 396)
      [] OTHER -> Reject("Exception", 401)

\* AdditiveGaussianNoise.__init__, lines 313 to 321 for loc
AdditiveGaussianNoise_init_loc(loc) ==
    CASE loc.ty = "float" -> Accept(Deterministic(loc.a))
      [] loc.ty = "tuple" ->
            IF loc.len = 2 THEN Accept(Uniform(loc.a, loc.b))
            ELSE Reject("TypeError", 316)
      [] OTHER -> Reject("Exception", 321)

\* AdditiveGaussianNoise.__init__, lines 323 to 331 for scale: the sign of
\* scale is not looked at
AdditiveGaussianNoise_init_scale(scale) ==
    CASE scale.ty = "float" -> Accept(Deterministic(scale.a))
      [] scale.ty = "tuple" ->
            IF scale.len = 2 THEN Accept(Uniform(scale.a, scale.b))
            ELSE Reject("TypeError", 326)
      [] OTHER -> Reject("Exception", 331)

\* Affine.__init__, lines 418 to 419: after Augmenter.__init__ the
\* constructor reads warp_args, a name that is neither a parameter nor a
\* global, before it looks at any of its arguments
Affine_init(scale, translate, rotate, shear) == Reject("NameError", 419)

\* Sometimes.__init__, lines 113 to 118; an int p counts whole units
Sometimes_init_p(p) ==
    CASE p.ty = "float" /\ 0 <= p.a /\ p.a <= 2 -> Accept(Binomial(p.a))
      [] p.ty = "int" /\ 0 <= p.a /\ p.a <= 1 -> Accept(Binomial(2 * p.a))
      [] OTHER -> Reject("Exception", 118)

\* ----------------------------------------------------------- constructors
\* the RandomState objects a caller can pass to a constructor: those the
\* augmenters hold
Streams == {i \in 1 .. Len(augs) : rsState[i] # NoState}

RandomStateArgs == {PyNone, PyInt(0)} \cup {PyRandomState(sid) : sid \in Streams}

\* the constructor of a leaf: c is what the checks of its arguments gave and
\* aug the augmenter it builds when they pass
Construct(c, aug, random_state) ==
    /\ Len(augs) < MaxNew
    /\ IF c.ok
       THEN /\ augs' = Append(augs, aug)
            /\ rsState' = Append(rsState, Augmenter_new_state(random_state))
            /\ last' = Record("new", Len(augs) + 1, 0, 0, Done, <<Len(augs) + 1>>, FALSE)
       ELSE /\ UNCHANGED <<augs, rsState>>
            /\ last' = Record("new", 0, 0, 0, Failed(c.err, c.at), <<>>, FALSE)

NewFliplr(p, deterministic, random_state) ==
    LET ref == Augmenter_random_state(random_state, Len(augs) + 1)
        c == Fliplr_init(p)
    IN Construct(c, [Blank("Fliplr", deterministic, ref) EXCEPT !.p = c.param],
                 random_state)

NewFlipud(p, deterministic, random_state) ==
    LET ref == Augmenter_random_state(random_state, Len(augs) + 1)
        c == Flipud_init(p)
    IN Construct(c, [Blank("Flipud", deterministic, ref) EXCEPT !.p = c.param],
                 random_state)

NewMultiply(mul, clip, deterministic, random_state) ==
    LET ref == Augmenter_random_state(random_state, Len(augs) + 1)
        c == Multiply_init(mul)
    IN Construct(c, [Blank("Multiply", deterministic, ref)
                       EXCEPT !.mul = c.param, !.clip = clip],
                 random_state)

NewAdditiveGaussianNoise(loc, scale, deterministic, random_state) ==
    LET ref == Augmenter_random_state(random_state, Len(augs) + 1)
        cl == AdditiveGaussianNoise_init_loc(loc)
        cs == AdditiveGaussianNoise_init_scale(scale)
    IN Construct(IF cl.ok THEN cs ELSE cl,
                 [Blank("AdditiveGaussianNoise", deterministic, ref)
                    EXCEPT !.loc = cl.param, !.scale = cs.param],
                 random_state)

NewAffine(scale, translate, rotate, shear, deterministic, random_state) ==
    LET ref == Augmenter_random_state(random_state, Len(augs) + 1)
        c == Affine_init(scale, translate, rotate, shear)
    IN Construct(c, Blank("Affine", deterministic, ref), random_state)

\* Sequence.__init__: the children are taken as they are
NewSequence(children, deterministic, random_state) ==
    LET ref == Augmenter_random_state(random_state, Len(augs) + 1)
    IN Construct(Accept(NoParam),
                 [Blank("Sequence", deterministic, ref) EXCEPT !.children = children],
                 random_state)

\* Sometimes.__init__, lines 120 to 130 and 132 to 142: one of then_list and
\* else_list.  as and rs are the heap so far, ref is self.random_state, seq
\* the line that wraps a list in a Sequence and exc the line that raises.
Sometimes_init_list(arg, as, rs, ref, seq, exc) ==
    CASE arg.ty = "None" -> [ok |-> TRUE, err |-> "", at |-> 0, ref |-> None, as |-> as, rs |-> rs]
      [] arg.ty = "Augmenter" -> [ok |-> TRUE, err |-> "", at |-> 0, ref |-> arg.a, as |-> as, rs |-> rs]
      [] arg.ty = "list" /\ arg.len = 0 ->
            [ok |-> TRUE, err |-> "", at |-> 0, ref |-> None, as |-> as, rs |-> rs]
      [] arg.ty = "list" /\ arg.len > 0 ->
            IF ~IsStream(ref)
            THEN [ok |-> FALSE, err |-> "AttributeError", at |-> seq, ref |-> None, as |-> as, rs |-> rs]
            ELSE LET s == rs[ref]
                     wid == Len(as) + 1
                     w == [Blank("Sequence", FALSE, wid)
                             EXCEPT !.children = <<arg.a>>, !.origin = Wrapped]
                 IN [ok |-> TRUE, err |-> "", at |-> 0, ref |-> wid,
                     as |-> Append(as, w),
                     rs |-> Append([rs EXCEPT ![ref] = Advance(s)], Seeded(Raw(s)))]
      [] OTHER -> [ok |-> FALSE, err |-> "Exception", at |-> exc, ref |-> None, as |-> as, rs |-> rs]

NewSometimes(p, then_list, else_list, deterministic, random_state) ==
    LET id == Len(augs) + 1
        ref == Augmenter_random_state(random_state, id)
        c == Sometimes_init_p(p)
        self == [Blank("Sometimes", deterministic, ref) EXCEPT !.p = c.param]
        t == Sometimes_init_list(then_list, Append(augs, self),
                                 Append(rsState, Augmenter_new_state(random_state)),
                                 ref, 128, 130)
        e == Sometimes_init_list(else_list, t.as, t.rs, ref, 140, 142)
    IN /\ Len(augs) < MaxNew
       /\ IF ~c.ok
          THEN /\ UNCHANGED <<augs, rsState>>
               /\ last' = Record("new", 0, 0, 0, Failed(c.err, c.at), <<>>, FALSE)
          ELSE IF ~t.ok
          THEN /\ UNCHANGED <<augs, rsState>>
               /\ last' = Record("new", 0, 0, 0, Failed(t.err, t.at), <<>>, FALSE)
          ELSE IF ~e.ok
          THEN /\ augs' = augs
               /\ rsState' = SubSeq(t.rs, 1, Len(augs))
               /\ last' = Record("new", 0, 0, 0, Failed(e.err, e.at), <<>>, FALSE)
          ELSE /\ Len(e.as) <= MaxAug
               /\ augs' = [e.as EXCEPT ![id] = [self EXCEPT !.then_list = t.ref,
                                                             !.else_list = e.ref]]
               /\ rsState' = e.rs
               /\ last' = Record("new", id, 0, 0, Done, <<id>>, FALSE)

\* ------------------------------------------------------- to_deterministic
\* what one _to_deterministic gives: the heap with the copies in it and the
\* new augmenter, or the error raised and the streams as the call left them
Cloned(as, rs, id, fresh) ==
    [ok |-> TRUE, err |-> "", at |-> 0, as |-> as, rs |-> rs, id |-> id, fresh |-> fresh]

CloneRaise(err, at, as, rs, fresh) ==
    [ok |-> FALSE, err |-> err, at |-> at, as |-> as, rs |-> rs, id |-> 0, fresh |-> fresh]

\* Augmenter._to_deterministic, lines 58 to 62: a shallow copy with a
\* RandomState() of its own, whose state is the next of fresh
Augmenter_to_deterministic(as, rs, a, fresh) ==
    LET id == Len(as) + 1
        aug == [as[a] EXCEPT !.random_state = id, !.deterministic = TRUE, !.origin = a]
    IN Cloned(Append(as, aug), Append(rs, Head(fresh)), id, Tail(fresh))

\* self._to_deterministic() as line 56 calls it, for each class.
\* Sequence._to_deterministic (line 84) takes n, which line 56 does not
\* pass.  Sometimes._to_deterministic (lines 166 to 172) asks both
\* then_list and else_list for to_deterministic() and seeds the copy from
\* a draw of the original's stream.
RECURSIVE _to_deterministic(_, _, _, _)
_to_deterministic(as, rs, a, fresh) ==
    LET self == as[a]
    IN CASE self.kind = "Sequence" -> CloneRaise("TypeError", 56, as, rs, fresh)
         [] self.kind = "Sometimes" ->
              IF self.then_list = None
              THEN CloneRaise("AttributeError", 168, as, rs, fresh)
              ELSE LET t == _to_deterministic(as, rs, self.then_list, fresh)
                   IN IF ~t.ok THEN t
                      ELSE IF self.else_list = None
                      THEN CloneRaise("AttributeError", 169, t.as, t.rs, t.fresh)
                      ELSE LET e == _to_deterministic(t.as, t.rs, self.else_list, t.fresh)
                           IN IF ~e.ok THEN e
                              ELSE IF ~IsStream(self.random_state)
                              THEN CloneRaise("AttributeError", 171, e.as, e.rs, e.fresh)
                              ELSE LET sid == self.random_state
                                       s == e.rs[sid]
                                       id == Len(e.as) + 1
                                       aug == [self EXCEPT !.then_list = t.id,
                                                           !.else_list = e.id,
                                                           !.deterministic = TRUE,
                                                           !.random_state = id,
                                                           !.origin = a]
                                   IN Cloned(Append(e.as, aug),
                                             Append([e.rs EXCEPT ![sid] = Advance(s)],
                                                    Seeded(Raw(s))),
                                             id, e.fresh)
         [] OTHER -> Augmenter_to_deterministic(as, rs, a, fresh)

\* the list comprehension of line 56: k more copies of a
RECURSIVE to_deterministic(_, _, _, _, _, _)
to_deterministic(as, rs, a, k, fresh, ids) ==
    IF k = 0
    THEN [Cloned(as, rs, 0, fresh) EXCEPT !.id = ids]
    ELSE LET c == _to_deterministic(as, rs, a, fresh)
         IN IF ~c.ok THEN [c EXCEPT !.id = ids]
            ELSE to_deterministic(c.as, c.rs, a, k - 1, c.fresh, Append(ids, c.id))

\* how many RandomState() one copy of a creates
RECURSIVE FreshNeeded(_, _)
FreshNeeded(as, a) ==
    IF a = None THEN 0
    ELSE CASE as[a].kind = "Sequence" -> 0
           [] as[a].kind = "Sometimes" ->
                FreshNeeded(as, as[a].then_list) + FreshNeeded(as, as[a].else_list)
           [] OTHER -> 1

Ids == 1 .. Len(augs)

\* n = -1 stands for the default n=None: the call returns to_deterministic(1)[0]
NoN == -1

\* to_deterministic(n).  Whether the call raises does not depend on the
\* states the new RandomState() objects start in, so it is decided with
\* zeros in their place; a call that returns is taken for every choice of
\* those states.  The call is made while the heap holds no copy yet.

ToDeterministic(a, n) ==
    LET k == IF n = NoN THEN 1 ELSE n
        need == k * FreshNeeded(augs, a)
        zeros == [i \in 1 .. need |-> 0]
        dry == to_deterministic(augs, rsState, a, k, zeros, <<>>)
    IN IF dry.ok
       THEN /\ Len(dry.as) <= MaxAug
            /\ \A i \in Ids : augs[i].origin <= 0
            /\ \E fresh \in [1 .. need -> RsStateSet] :
                 \E r \in {to_deterministic(augs, rsState, a, k, fresh, <<>>)} :
                    /\ augs' = r.as
                    /\ rsState' = r.rs
                    /\ last' = Record("to_deterministic", a, 0, n, Done, r.id, n # NoN)
       ELSE /\ augs' = augs
            /\ rsState' = SubSeq(dry.rs, 1, Len(augs))
            /\ last' = Record("to_deterministic", a, 0, n, Failed(dry.err, dry.at),
                              <<>>, FALSE)

\* ------------------------------------------------------ append and extend
\* Sequence.append, lines 98 to 100
SeqAppend(a, b) ==
    /\ augs[a].kind = "Sequence"
    /\ Len(augs[a].children) < MaxChildren
    /\ augs' = [augs EXCEPT ![a].children = Append(@, b)]
    /\ UNCHANGED rsState
    /\ last' = Record("append", a, 0, 0, Done, <<a>>, FALSE)

\* Sequence.extend, lines 102 to 104: self.augmenters is an attribute no
\* Sequence has
SeqExtend(a, bs) ==
    /\ augs[a].kind = "Sequence"
    /\ UNCHANGED <<augs, rsState>>
    /\ last' = Record("extend", a, 0, Len(bs), Failed("AttributeError", 103), <<>>, FALSE)

\* ---------------------------------------------------------------- transform
Transform(a, x) ==
    \E r \in {transform(augs[a], Inputs[x], rsState)} :
       /\ rsState' = r.rs
       /\ UNCHANGED augs
       /\ last' = Record("transform", a, x, 0, r, <<>>, FALSE)

\* ------------------------------------------------------- the specification
\* lists of at most MaxChildren augmenters
Lists == UNION {[1 .. k -> Ids] : k \in 0 .. MaxChildren}

\* the leaves on the heap
Leaves == {i \in Ids : augs[i].kind \notin {"Sequence", "Sometimes"}}

\* what is passed as then_list and else_list: None, a string, an empty list,
\* a leaf, a list of one leaf
BranchArgs ==
    {PyNone, PyStr, Arg("list", 0, 0, 0)}
      \cup {Arg("Augmenter", i, i, 0) : i \in Leaves}
      \cup {Arg("list", i, i, 1) : i \in Leaves}

Init ==
    /\ augs = <<>>
    /\ rsState = <<>>
    /\ last = Record("init", 0, 0, 0, Done, <<>>, FALSE)

\* A client of the leaves: their constructors, to_deterministic and transform
NextLeaf ==
    \/ \E p \in {PyFloat(1), PyFloat(2), PyInt(0)}, d \in BOOLEAN, rs \in RandomStateArgs :
         NewFliplr(p, d, rs)
    \/ \E mul \in {PyFloat(2), PyFloat(-1), PyTuple(1, 3, 2), PyTuple(1, 3, 3), PyInt(2)},
          d \in BOOLEAN, rs \in RandomStateArgs :
         NewMultiply(mul, TRUE, d, rs)
    \/ \E loc \in {PyFloat(0), PyInt(0)}, scale \in {PyFloat(0), PyFloat(-1)},
          d \in BOOLEAN, rs \in RandomStateArgs :
         NewAdditiveGaussianNoise(loc, scale, d, rs)
    \/ \E a \in Ids, n \in {NoN} \cup (1 .. MaxN) :
         Len(augs) <= MaxSolo /\ ToDeterministic(a, n)
    \/ \E a \in Ids, x \in InputIds : Transform(a, x)

Spec == Init /\ [][NextLeaf]_vars

\* A client of one leaf and its clone: the constructors, to_deterministic()
\* and transform
NextRestore ==
    \/ \E d \in BOOLEAN, rs \in RandomStateArgs :
         Len(augs) < MaxSolo /\ NewFliplr(PyFloat(1), d, rs)
    \/ \E d \in BOOLEAN, rs \in RandomStateArgs :
         Len(augs) < MaxSolo /\ NewMultiply(PyTuple(1, 3, 2), TRUE, d, rs)
    \/ \E d \in BOOLEAN, rs \in RandomStateArgs :
         Len(augs) < MaxSolo /\ NewAdditiveGaussianNoise(PyFloat(0), PyFloat(0), d, rs)
    \/ \E a \in Ids : Len(augs) <= MaxSolo /\ ToDeterministic(a, NoN)
    \/ \E a \in Ids, x \in InputIds : Transform(a, x)

SpecRestore == Init /\ [][NextRestore]_vars

\* A client of the geometric leaves: Fliplr, Flipud, Affine and transform
NextGeometric ==
    \/ \E p \in {PyFloat(0), PyFloat(1), PyFloat(2)}, d \in BOOLEAN, rs \in RandomStateArgs :
         NewFliplr(p, d, rs)
    \/ \E p \in {PyFloat(0), PyFloat(1), PyFloat(2), PyInt(0)}, d \in BOOLEAN,
          rs \in RandomStateArgs :
         NewFlipud(p, d, rs)
    \/ \E scale \in {PyFloat(1), PyFloat(2)}, translate \in {PyInt(0), PyInt(1)},
          d \in BOOLEAN, rs \in RandomStateArgs :
         NewAffine(scale, translate, PyFloat(0), PyFloat(0), d, rs)
    \/ \E a \in Ids, x \in InputIds : Transform(a, x)

SpecGeometric == Init /\ [][NextGeometric]_vars

\* A client of Sequence: leaves, Sequences of them, append, extend,
\* to_deterministic and transform
NextSequence ==
    \/ \E d \in BOOLEAN, rs \in RandomStateArgs : NewFliplr(PyFloat(1), d, rs)
    \/ \E children \in Lists, d \in BOOLEAN, rs \in RandomStateArgs :
         NewSequence(children, d, rs)
    \/ \E a \in Ids, b \in Ids : SeqAppend(a, b)
    \/ \E a \in Ids, bs \in Lists : SeqExtend(a, bs)
    \/ \E a \in Ids, n \in {NoN} \cup (1 .. MaxN) :
         augs[a].kind = "Sequence" /\ ToDeterministic(a, n)
    \/ \E a \in Ids, x \in InputIds : Transform(a, x)

SpecSequence == Init /\ [][NextSequence]_vars

\* A client of Sometimes: leaves, a Sometimes over them, to_deterministic
\* and transform
NextSometimes ==
    \/ NewFliplr(PyFloat(1), FALSE, PyNone)
    \/ \E p \in {PyFloat(1), PyFloat(2), PyFloat(0), PyFloat(3), PyInt(1)},
          t \in BranchArgs, e \in BranchArgs, d \in BOOLEAN, rs \in RandomStateArgs :
         NewSometimes(p, t, e, d, rs)
    \/ \E a \in Ids, n \in {NoN} \cup (1 .. MaxN) :
         augs[a].kind = "Sometimes" /\ ToDeterministic(a, n)
    \/ \E a \in Ids, x \in InputIds : Transform(a, x)

SpecSometimes == Init /\ [][NextSometimes]_vars

\* ------------------------------------------------------------- the claims
\* what the last call was made on, and with
Target == augs[last.a]
Given == Inputs[last.x]

IsClone(i) == augs[i].origin > 0

\* the instance can take a snapshot of its stream and draw from it: its
\* random_state is a RandomState and not the tuple of line 23
HasStream(i) == IsStream(augs[i].random_state)

TransformOf(kind) ==
    /\ last.op = "transform"
    /\ augs[last.a].kind = kind
    /\ ValidBatch(Given)

\* C1: two consecutive calls C.transform(X) of a Deterministic Clone C
\* obtained from to_deterministic, with the same valid batch X, end the same
\* way with the same result, and the per-image decisions of the second call
\* are those of the first.
C1_CloneRepeatsItself ==
    [][(/\ last.op = "transform"
        /\ last'.op = "transform"
        /\ last'.a = last.a
        /\ last'.x = last.x
        /\ IsClone(last.a)
        /\ ValidBatch(Given))
       => (/\ last'.ok = last.ok
           /\ last'.val = last.val
           /\ last'.samples = last.samples)]_vars

\* C2: a transform call that completes on an instance whose determinism flag
\* is set leaves the state of the instance's random stream as it was before
\* the call, for an array and for a list alike; so the state after any
\* number of completed calls is the state before the first.
C2_CompletedCallRestoresStream ==
    [][(/\ last'.op = "transform"
        /\ last'.ok
        /\ augs[last'.a].deterministic)
       => rsState'[augs[last'.a].random_state] = rsState[augs[last'.a].random_state]]_vars

\* C2, its case: a deterministic Fliplr has completed a transform of a list
\* of images, for which it drew one sample per image
C2_Witness ==
    /\ last.op = "transform"
    /\ last.ok
    /\ Target.deterministic
    /\ Target.kind = "Fliplr"
    /\ Given.form = "list"
    /\ Len(last.samples) = Len(Given.imgs)
    /\ Len(last.samples) > 0

\* C3: transform of a batch that is not 4-D or not uint8 fails with the
\* input-validation error of line 36 or 38, before _transform has run and
\* before a sample has been drawn.
C3_InvalidBatchFailsValidation ==
    (last.op = "transform" /\ ~ValidBatch(Given))
       => (/\ ~last.ok
           /\ last.err = "AssertionError"
           /\ last.at \in {36, 38}
           /\ ~last.ran
           /\ last.samples = <<>>)

\* C4: to_deterministic() returns one clone and to_deterministic(n) a list
\* of n; every clone has its determinism flag set and a stream of its own,
\* which no other augmenter holds; the clone of a Sequence has the clones of
\* the children, in order; the clone of a Sometimes has the clones of both
\* sub-pipelines, an absent one staying absent.
C4_ToDeterministicReturnsClones ==
    (last.op = "to_deterministic")
       => (/\ last.ok
           /\ last.isList = (last.n # NoN)
           /\ Len(last.ids) = IF last.n = NoN THEN 1 ELSE last.n
           /\ \A k \in 1 .. Len(last.ids) :
                LET c == augs[last.ids[k]]
                IN /\ c.deterministic
                   /\ c.origin = last.a
                   /\ IsStream(c.random_state)
                   /\ \A j \in Ids : j # last.ids[k] => augs[j].random_state # c.random_state
                   /\ Len(c.children) = Len(Target.children)
                   /\ \A m \in 1 .. Len(c.children) :
                        augs[c.children[m]].origin = Target.children[m]
                   /\ (Target.then_list = None) = (c.then_list = None)
                   /\ (Target.else_list = None) = (c.else_list = None)
                   /\ c.then_list # None => augs[c.then_list].origin = Target.then_list
                   /\ c.else_list # None => augs[c.else_list].origin = Target.else_list)

\* the batch a Sequence of deterministic children is to return: the batch
\* handed from child to child, each child's transform applied in turn
RECURSIVE Threaded(_, _)
Threaded(children, x) ==
    IF children = <<>> THEN x
    ELSE Threaded(Tail(children), transform(augs[Head(children)], x, rsState).val)

\* C5: transform of a Sequence (one that can take its snapshot) hands the
\* batch through its children in list order: with deterministic children
\* the result is that of the children applied one after the other, and with
\* no children it is the batch.
C5_SequenceThreadsChildren ==
    (/\ TransformOf("Sequence")
     /\ Target.deterministic => HasStream(last.a)
     /\ \A m \in 1 .. Len(Target.children) :
          augs[Target.children[m]].deterministic /\ HasStream(Target.children[m]))
       => (/\ last.ok
           /\ last.val = Threaded(Target.children, Stacked(Given)))

\* C6: append and extend add the given children at the end of the child
\* list and return the Sequence.
C6_AppendExtendGrowChildren ==
    [][(last'.op \in {"append", "extend"})
       => (/\ last'.ok
           /\ last'.ids = <<last'.a>>
           /\ Len(augs'[last'.a].children)
                = Len(augs[last'.a].children) + (IF last'.op = "append" THEN 1 ELSE last'.n)
           /\ SubSeq(augs'[last'.a].children, 1, Len(augs[last'.a].children))
                = augs[last'.a].children)]_vars

\* C7: transform of a Sometimes (one that holds a random stream) draws one
\* sample per image and returns a batch of as many images, in which an image
\* whose selected sub-pipeline is absent is the input image; so with p = 0.0
\* and no else sub-pipeline the batch comes back unchanged.
C7_SometimesRoutesPerImage ==
    (TransformOf("Sometimes") /\ HasStream(last.a))
       => (/\ last.ok
           /\ Len(last.samples) = Len(Given.imgs)
           /\ Len(last.val.imgs) = Len(Given.imgs)
           /\ \A i \in 1 .. Len(Given.imgs) :
                (IF last.samples[i] = 1 THEN Target.then_list ELSE Target.else_list) = None
                   => last.val.imgs[i] = Given.imgs[i])

\* C8: an AdditiveGaussianNoise whose constructor returned (and which holds
\* a random stream) does not fail on a valid batch: a malformed noise scale
\* was rejected when it was constructed.
C8_NoConfigurationErrorInTransform ==
    (TransformOf("AdditiveGaussianNoise") /\ HasStream(last.a)) => last.ok

\* C9: no two augmenters hold the same random stream object.
C9_NoSharedStream ==
    \A i \in Ids, j \in Ids :
        (i # j /\ HasStream(i)) => augs[i].random_state # augs[j].random_state

\* C10: transform of a Multiply (one that can draw its multipliers) returns
\* a uint8 batch of the shape of the input, in which every pixel of image i
\* is the input pixel times multiplier i, clamped to [0, 255] when clip is
\* set.
C10_MultiplyScalesEachImage ==
    (/\ TransformOf("Multiply")
     /\ Target.deterministic => HasStream(last.a)
     /\ UsesStream(Target.mul) => HasStream(last.a))
       => (/\ last.ok
           /\ last.val.dtype = "uint8"
           /\ Len(last.samples) = Len(Given.imgs)
           /\ last.val.imgs =
                [i \in 1 .. Len(Given.imgs) |->
                  [h \in 1 .. Len(Given.imgs[i]) |->
                    [w \in 1 .. Len(Given.imgs[i][h]) |->
                      [k \in 1 .. Len(Given.imgs[i][h][w]) |->
                         IF Target.clip
                         THEN np_clip(Given.imgs[i][h][w][k] * last.samples[i])
                         ELSE Given.imgs[i][h][w][k] * last.samples[i]]]]])

\* the image mirrored along the width axis, and along the height axis
MirrorLeftRight(img) ==
    [h \in 1 .. Len(img) |-> [w \in 1 .. Len(img[h]) |-> img[h][Len(img[h]) + 1 - w]]]

MirrorUpDown(img) == [h \in 1 .. Len(img) |-> img[Len(img) + 1 - h]]

\* C11: transform of a Fliplr or a Flipud returns, for a valid batch, a
\* batch of the same shape and order, having drawn one sample per image:
\* an image whose sample is 1 comes back mirrored (left-right for Fliplr,
\* up-down for Flipud), every other image unchanged; with p = 1.0 every
\* sample is 1 and with p = 0.0 none is.
C11_FlipMirrorsSampledImages ==
    (/\ last.op = "transform"
     /\ Target.kind \in {"Fliplr", "Flipud"}
     /\ ValidBatch(Given))
       => (/\ last.ok
           /\ Len(last.samples) = Len(Given.imgs)
           /\ Len(last.val.imgs) = Len(Given.imgs)
           /\ last.val.ndim = 4
           /\ last.val.dtype = "uint8"
           /\ \A i \in 1 .. Len(Given.imgs) :
                /\ last.samples[i] \in {0, 1}
                /\ Target.p.a = 2 => last.samples[i] = 1
                /\ Target.p.a = 0 => last.samples[i] = 0
                /\ last.val.imgs[i] =
                     IF last.samples[i] = 0 THEN Given.imgs[i]
                     ELSE IF Target.kind = "Fliplr" THEN MirrorLeftRight(Given.imgs[i])
                     ELSE MirrorUpDown(Given.imgs[i]))

\* C12: Affine(scale=1.0, translate=0, rotate=0.0, shear=0.0) can be
\* constructed, and transform of an Affine returns, for a valid batch, the
\* batch itself.
C12_AffineIdentity ==
    [][/\ (\E d \in BOOLEAN, rs \in RandomStateArgs :
             NewAffine(PyFloat(1), PyInt(0), PyFloat(0), PyFloat(0), d, rs))
           => last'.ok
       /\ (/\ last'.op = "transform"
           /\ augs[last'.a].kind = "Affine"
           /\ ValidBatch(Inputs[last'.x]))
           => (last'.ok /\ last'.val = Stacked(Inputs[last'.x]))]_vars

\* C13: in transform of an AdditiveGaussianNoise (one that holds a random
\* stream) the seeds, the means and the standard deviations are drawn from
\* three forks that do not repeat one another: no two of them start in the
\* same state; and a call that returns on an instance whose determinism
\* flag is not set leaves the instance's stream one draw further, the
\* forks' draws having left it untouched.
C13_NoiseForksIndependent ==
    [][(/\ last'.op = "transform"
        /\ augs[last'.a].kind = "AdditiveGaussianNoise"
        /\ ValidBatch(Inputs[last'.x])
        /\ HasStream(last'.a))
       => LET self == augs[last'.a]
              forks == AdditiveGaussianNoise_forks(self, rsState)
          IN /\ forks.seeds # forks.loc
             /\ forks.seeds # forks.scale
             /\ forks.loc # forks.scale
             /\ (last'.ok /\ ~self.deterministic)
                  => rsState'[self.random_state] = Advance(rsState[self.random_state])]_vars

\* C14: to_deterministic leaves everything that was there before the call
\* as it was: the original keeps its determinism flag, its children and its
\* sub-pipelines, these stay the augmenters they were, and no random stream
\* that existed before the call has changed its state.
C14_ToDeterministicLeavesOriginal ==
    [][(last'.op = "to_deterministic")
       => \A i \in 1 .. Len(augs) :
            /\ augs'[i] = augs[i]
            /\ rsState'[i] = rsState[i]]_vars

====
